---- MODULE Spec2Model ----
(***************************************************************************)
(* Model of the binary codec of src/src/lib.rs: CompactSize, OutPoint,     *)
(* Script, TransactionInput and BitcoinTransaction, their to_bytes and     *)
(* from_bytes.                                                             *)
(*                                                                         *)
(* Number representation.  TLC's integers are 32 bits wide, the program's  *)
(* are u16, u32, u64 and usize (64 bits).  A machine integer is therefore  *)
(* a little-endian sequence of 16-bit limbs: a u16 has 1 limb, a u32 has   *)
(* 2, a u64 or usize has 4.  <<4464, 1, 0, 0>> is 70000 and                *)
(* <<65535, 65535, 0, 0>> is 4294967295.  Bytes are naturals 0..255 and a  *)
(* buffer (&[u8], Vec<u8>) is a sequence of bytes.  Buffer lengths and     *)
(* offsets that the code has already compared against a buffer length are  *)
(* small and are kept as naturals.                                         *)
(***************************************************************************)
EXTENDS Naturals, Sequences, FiniteSets

VARIABLES
    overflow_checks, \* build profile: TRUE = debug (arithmetic overflow panics), FALSE = release (wraps)
    kind,            \* the type whose to_bytes / from_bytes is exercised
    value,           \* the value handed to to_bytes
    buffer,          \* the byte slice handed to from_bytes
    shape,           \* how buffer relates to to_bytes(value): exact, truncated, extended, forged
    pc,              \* new -> wire -> (loop ->) done
    result,          \* what from_bytes returned
    version,         \* BitcoinTransaction::from_bytes local `version`
    cs,              \* BitcoinTransaction::from_bytes local `cs.value`
    offset,          \* BitcoinTransaction::from_bytes local `offset`
    inputs,          \* BitcoinTransaction::from_bytes local `inputs`
    iter             \* number of completed iterations of `for _ in 0..cs.value`

vars == <<overflow_checks, kind, value, buffer, shape, pc, result,
          version, cs, offset, inputs, iter>>

----------------------------------------------------------------------------
(* Bounds of the model *)

MaxInputs == 2
MaxTrail == 2

----------------------------------------------------------------------------
(* Machine integers *)

Base == 256 * 256

TxidLen == 32
OutPointLen == 36

\* `n as u64` / `n as usize` for a native length n
ToU64(n) == <<n % Base, n \div Base, 0, 0>>

\* a usize known to be at most a buffer length, as a natural
ToNat(x) == x[1] + Base * x[2]

\* `v as u8`, `v as u16`, `v as u32`: truncating casts
AsU8(v) == v[1] % 256
AsU16(v) == <<v[1]>>
AsU32(v) == <<v[1], v[2]>>

\* `x as u64` for a narrower unsigned x: zero extension
ZeroExtend(x) == [k \in 1..4 |-> IF k <= Len(x) THEN x[k] ELSE 0]

\* a < b and a <= b on unsigned integers of the same width
LtU(a, b) == \E k \in 1..Len(a) : /\ a[k] < b[k]
                                  /\ \A j \in (k+1)..Len(a) : a[j] = b[j]
LeqU(a, b) == ~LtU(b, a)

\* a + b in 64 bits: the wrapped sum and whether it overflowed
AddU64(a, b) ==
    LET s1 == a[1] + b[1]
        s2 == a[2] + b[2] + (s1 \div Base)
        s3 == a[3] + b[3] + (s2 \div Base)
        s4 == a[4] + b[4] + (s3 \div Base)
    IN [sum |-> <<s1 % Base, s2 % Base, s3 % Base, s4 % Base>>,
        overflow |-> s4 \div Base = 1]

\* uN::to_le_bytes: low byte of the low limb first
to_le_bytes(x) ==
    [j \in 1..(2 * Len(x)) |->
        IF j % 2 = 1 THEN x[(j + 1) \div 2] % 256 ELSE x[j \div 2] \div 256]

\* uN::from_le_bytes
from_le_bytes(b) ==
    [k \in 1..(Len(b) \div 2) |-> b[2 * k - 1] + 256 * b[2 * k]]

\* bytes[a..b]: in range iff a <= b <= bytes.len(), else the index panics
InRange(bytes, a, b) == a <= b /\ b <= Len(bytes)
Slice(bytes, a, b) == SubSeq(bytes, a + 1, b)

----------------------------------------------------------------------------
(* Results: Result<(Self, usize), BitcoinError>, or a panic of the call *)

Ok(v, n) == [tag |-> "Ok", val |-> v, used |-> n]
Err(e) == [tag |-> "Err", err |-> e]
Panic == [tag |-> "Panic"]
NoResult == [tag |-> "None"]

InsufficientBytes == Err("InsufficientBytes")
InvalidFormat == Err("InvalidFormat")

----------------------------------------------------------------------------
(* CompactSize *)

CompactSize_new(v) == [value |-> v]

\* mutant: the one-byte class taken one value too far (v <= 0xFD)
CompactSize_to_bytes_OffByOne(self) ==
    LET v == self.value IN
    IF LeqU(v, ToU64(253)) THEN <<AsU8(v)>>
    ELSE IF LeqU(v, <<65535, 0, 0, 0>>) THEN <<253>> \o to_le_bytes(AsU16(v))
    ELSE IF LeqU(v, <<65535, 65535, 0, 0>>) THEN <<254>> \o to_le_bytes(AsU32(v))
    ELSE <<255>> \o to_le_bytes(v)

CompactSize_to_bytes(self) ==
    LET v == self.value IN
    IF LeqU(v, ToU64(252)) THEN <<AsU8(v)>>
    ELSE IF LeqU(v, <<65535, 0, 0, 0>>) THEN <<253>> \o to_le_bytes(AsU16(v))
    ELSE IF LeqU(v, <<65535, 65535, 0, 0>>) THEN <<254>> \o to_le_bytes(AsU32(v))
    ELSE <<255>> \o to_le_bytes(v)

\* mutant: a decoder that rejects non-minimal encodings with InvalidFormat
CompactSize_from_bytes_Strict(bytes) ==
    IF Len(bytes) = 0 THEN InsufficientBytes
    ELSE LET n == bytes[1] IN
         IF n <= 252 THEN Ok(CompactSize_new(ToU64(n)), 1)
         ELSE IF Len(bytes) < (IF n = 253 THEN 3 ELSE IF n = 254 THEN 5 ELSE 9)
              THEN InsufficientBytes
         ELSE LET w == IF n = 253 THEN 3 ELSE IF n = 254 THEN 5 ELSE 9
                  v == ZeroExtend(from_le_bytes(Slice(bytes, 1, w)))
              IN IF Len(CompactSize_to_bytes(CompactSize_new(v))) # w
                 THEN InvalidFormat
                 ELSE Ok(CompactSize_new(v), w)

CompactSize_from_bytes(bytes) ==
    IF Len(bytes) = 0 THEN InsufficientBytes
    ELSE LET n == bytes[1] IN
         IF n <= 252 THEN Ok(CompactSize_new(ToU64(n)), 1)
         ELSE IF n = 253 THEN
            IF Len(bytes) < 3 THEN InsufficientBytes
            ELSE Ok(CompactSize_new(ZeroExtend(from_le_bytes(Slice(bytes, 1, 3)))), 3)
         ELSE IF n = 254 THEN
            IF Len(bytes) < 5 THEN InsufficientBytes
            ELSE Ok(CompactSize_new(ZeroExtend(from_le_bytes(Slice(bytes, 1, 5)))), 5)
         ELSE IF n = 255 THEN
            IF Len(bytes) < 9 THEN InsufficientBytes
            ELSE Ok(CompactSize_new(from_le_bytes(Slice(bytes, 1, 9))), 9)
         ELSE InvalidFormat

----------------------------------------------------------------------------
(* OutPoint *)

OutPoint_new(txid, vout) == [txid |-> txid, vout |-> vout]

OutPoint_to_bytes(self) == self.txid \o to_le_bytes(self.vout)

OutPoint_from_bytes(bytes) ==
    IF Len(bytes) < OutPointLen THEN InsufficientBytes
    ELSE Ok(OutPoint_new(Slice(bytes, 0, TxidLen),
                         from_le_bytes(Slice(bytes, TxidLen, OutPointLen))),
            OutPointLen)

----------------------------------------------------------------------------
(* Script *)

Script_new(bytes) == [bytes |-> bytes]

Script_to_bytes(self) ==
    CompactSize_to_bytes(CompactSize_new(ToU64(Len(self.bytes)))) \o self.bytes

\* mutant: a short payload is clamped to the end of the buffer instead of
\* being refused
Script_from_bytes_Clamped(bytes) ==
    LET r == CompactSize_from_bytes(bytes) IN
    IF r.tag # "Ok" THEN r
    ELSE LET used == r.used
             len == r.val.value
             add == AddU64(ToU64(used), len)
         IN IF add.overflow THEN Panic
            ELSE LET end == IF LtU(ToU64(Len(bytes)), add.sum)
                            THEN Len(bytes) ELSE ToNat(add.sum)
                 IN Ok(Script_new(Slice(bytes, used, end)), end)

\* `used + len` is usize arithmetic: on overflow a debug build panics and a
\* release build wraps; the wrapped end then indexes bytes[used..end].
Script_from_bytes(bytes) ==
    LET r == CompactSize_from_bytes(bytes) IN
    IF r.tag # "Ok" THEN r
    ELSE LET used == r.used
             len == r.val.value
             add == AddU64(ToU64(used), len)
         IN IF add.overflow /\ overflow_checks THEN Panic
            ELSE IF LtU(ToU64(Len(bytes)), add.sum) THEN InsufficientBytes
            ELSE LET end == ToNat(add.sum) IN
                 IF ~InRange(bytes, used, end) THEN Panic
                 ELSE Ok(Script_new(Slice(bytes, used, end)), end)

----------------------------------------------------------------------------
(* TransactionInput *)

TransactionInput_new(previous_output, script_sig, sequence) ==
    [previous_output |-> previous_output, script_sig |-> script_sig,
     sequence |-> sequence]

\* mutant: the sequence number written before the script
TransactionInput_to_bytes_SequenceFirst(self) ==
    OutPoint_to_bytes(self.previous_output)
        \o to_le_bytes(self.sequence)
        \o Script_to_bytes(self.script_sig)

TransactionInput_to_bytes(self) ==
    OutPoint_to_bytes(self.previous_output)
        \o Script_to_bytes(self.script_sig)
        \o to_le_bytes(self.sequence)

TransactionInput_from_bytes(bytes) ==
    LET r1 == OutPoint_from_bytes(bytes) IN
    IF r1.tag # "Ok" THEN r1
    ELSE IF ~InRange(bytes, r1.used, Len(bytes)) THEN Panic
    ELSE LET r2 == Script_from_bytes(Slice(bytes, r1.used, Len(bytes))) IN
         IF r2.tag # "Ok" THEN r2
         ELSE LET used == r1.used + r2.used IN
              IF Len(bytes) < used + 4 THEN InsufficientBytes
              ELSE Ok(TransactionInput_new(r1.val, r2.val,
                          from_le_bytes(Slice(bytes, used, used + 4))),
                      used + 4)

----------------------------------------------------------------------------
(* BitcoinTransaction *)

BitcoinTransaction_new(ver, ins, lock_time) ==
    [version |-> ver, inputs |-> ins, lock_time |-> lock_time]

RECURSIVE ConcatInputs(_)
ConcatInputs(ins) ==
    IF ins = <<>> THEN <<>>
    ELSE TransactionInput_to_bytes(Head(ins)) \o ConcatInputs(Tail(ins))

\* mutant: the input count written as a 4-byte integer, not a CompactSize
BitcoinTransaction_to_bytes_CountU32(self) ==
    to_le_bytes(self.version)
        \o to_le_bytes(AsU32(ToU64(Len(self.inputs))))
        \o ConcatInputs(self.inputs)
        \o to_le_bytes(self.lock_time)

BitcoinTransaction_to_bytes(self) ==
    to_le_bytes(self.version)
        \o CompactSize_to_bytes(CompactSize_new(ToU64(Len(self.inputs))))
        \o ConcatInputs(self.inputs)
        \o to_le_bytes(self.lock_time)

\* lines 214-219: the version and the input count; Ok carries (version, count)
\* and the first offset in `used`
TxHeader(bytes) ==
    IF Len(bytes) < 4 THEN InsufficientBytes
    ELSE LET r == CompactSize_from_bytes(Slice(bytes, 4, Len(bytes))) IN
         IF r.tag # "Ok" THEN r
         ELSE Ok([version |-> from_le_bytes(Slice(bytes, 0, 4)),
                  count |-> r.val.value],
                 4 + r.used)

\* line 221: the loop runs while the iteration index is below cs.value
TxLoopCond(k, count) == LtU(ToU64(k), count)

\* mutant: the input's error reported as a different kind
TxLoopBody_Rekinded(bytes, off) ==
    IF ~InRange(bytes, off, Len(bytes)) THEN Panic
    ELSE LET r == TransactionInput_from_bytes(Slice(bytes, off, Len(bytes)))
         IN IF r.tag = "Err" THEN InvalidFormat ELSE r

\* line 222: one input decoded from the re-sliced view at `off`
TxLoopBody(bytes, off) ==
    IF ~InRange(bytes, off, Len(bytes)) THEN Panic
    ELSE TransactionInput_from_bytes(Slice(bytes, off, Len(bytes)))

\* mutant: the input inserted at the front
TxPush_Front(ins, input) == <<input>> \o ins

\* line 223: inputs.push(input)
TxPush(ins, input) == Append(ins, input)

\* line 224: offset += used
TxAdvance(off, used) == off + used

\* mutant: the lock time read without the length check before it
TxFinish_Unchecked(bytes, ver, ins, off) ==
    IF ~InRange(bytes, off, off + 4) THEN Panic
    ELSE Ok(BitcoinTransaction_new(ver, ins,
                from_le_bytes(Slice(bytes, off, off + 4))),
            off + 4)

\* lines 226-233: the lock time and the result
TxFinish(bytes, ver, ins, off) ==
    IF Len(bytes) < off + 4 THEN InsufficientBytes
    ELSE Ok(BitcoinTransaction_new(ver, ins,
                from_le_bytes(Slice(bytes, off, off + 4))),
            off + 4)

RECURSIVE TxRun(_, _, _, _, _, _)
TxRun(bytes, ver, count, k, off, ins) ==
    IF TxLoopCond(k, count)
    THEN LET r == TxLoopBody(bytes, off) IN
         IF r.tag # "Ok" THEN r
         ELSE TxRun(bytes, ver, count, k + 1,
                    TxAdvance(off, r.used), TxPush(ins, r.val))
    ELSE TxFinish(bytes, ver, ins, off)

BitcoinTransaction_from_bytes(bytes) ==
    LET h == TxHeader(bytes) IN
    IF h.tag # "Ok" THEN h
    ELSE TxRun(bytes, h.val.version, h.val.count, 0, h.used, <<>>)

----------------------------------------------------------------------------
(* The values and buffers the codec is exercised on *)

Kinds == {"CompactSize", "OutPoint", "Script", "TransactionInput",
          "BitcoinTransaction"}

Fill(n, b) == [j \in 1..n |-> b]
Ramp(n) == [j \in 1..n |-> j % 256]

\* 0, 1, 252, 253, 254, 255, 256, 300, 65535, 65536, 70000, 2^32-1, 2^32,
\* 0x0807060504030201, 2^64-1
CompactSizes ==
    { CompactSize_new(v) : v \in
        { <<0, 0, 0, 0>>, <<1, 0, 0, 0>>, <<252, 0, 0, 0>>, <<253, 0, 0, 0>>,
          <<254, 0, 0, 0>>, <<255, 0, 0, 0>>, <<256, 0, 0, 0>>,
          <<300, 0, 0, 0>>, <<65535, 0, 0, 0>>, <<0, 1, 0, 0>>,
          <<4464, 1, 0, 0>>, <<65535, 65535, 0, 0>>, <<0, 0, 1, 0>>,
          <<513, 1027, 1541, 2055>>, <<65535, 65535, 65535, 65535>> } }

\* 0, 1, 0x04030201, 2^32-1
U32s == { <<0, 0>>, <<1, 0>>, <<513, 1027>>, <<65535, 65535>> }

Txids == { Fill(TxidLen, 0), Fill(TxidLen, 255), Ramp(TxidLen) }

OutPoints ==
    { OutPoint_new(t, v) : t \in Txids, v \in { <<1, 0>>, <<513, 1027>> } }
        \cup { OutPoint_new(Ramp(TxidLen), v) : v \in U32s }

Scripts ==
    { Script_new(b) : b \in
        { <<>>, <<171>>, <<1, 253>>, Fill(8, 255), Ramp(9), Ramp(252),
          Ramp(253) } }

InputA == TransactionInput_new(OutPoint_new(Fill(TxidLen, 0), <<1, 0>>),
                               Script_new(<<>>), <<65535, 65535>>)
InputB == TransactionInput_new(OutPoint_new(Ramp(TxidLen), <<513, 1027>>),
                               Script_new(Fill(8, 255)), <<0, 0>>)
InputC == TransactionInput_new(OutPoint_new(Fill(TxidLen, 255), <<0, 0>>),
                               Script_new(Ramp(253)), <<513, 1027>>)

TransactionInputs == { InputA, InputB, InputC }

SeqsUpTo(S, n) == UNION { [1..m -> S] : m \in 0..n }

BitcoinTransactions ==
    { BitcoinTransaction_new(<<1, 0>>, ins, <<0, 0>>) :
        ins \in SeqsUpTo({InputA, InputB}, MaxInputs) }
        \cup { BitcoinTransaction_new(<<65535, 65535>>, <<InputB, InputA>>,
                                      <<513, 1027>>) }

Values(k) ==
    CASE k = "CompactSize" -> CompactSizes
      [] k = "OutPoint" -> OutPoints
      [] k = "Script" -> Scripts
      [] k = "TransactionInput" -> TransactionInputs
      [] k = "BitcoinTransaction" -> BitcoinTransactions

\* trailing bytes appended after a complete encoding
Trailers == { Fill(m, b) : m \in 1..MaxTrail, b \in {0, 255} }

\* CompactSize wire forms written over a buffer to make it arbitrary:
\* small counts, non-minimal forms, lengths beyond the buffer, and the
\* lengths 2^64-9 and 2^64-1, for which 9 + len leaves 64 bits
Forgeries ==
    { <<0>>, <<2>>, <<253, 5, 0>>, <<254, 1, 0, 1, 0>>,
      <<255, 1, 0, 0, 0, 0, 0, 0, 0>>,
      <<255, 247>> \o Fill(7, 255), Fill(9, 255) }

\* p written over bytes from index at (0-based), clipped to bytes.len()
Overwrite(bytes, at, p) ==
    [j \in 1..Len(bytes) |->
        IF at < j /\ j <= at + Len(p) THEN p[j - at] ELSE bytes[j]]

----------------------------------------------------------------------------
(* State machine *)

Init ==
    /\ overflow_checks \in BOOLEAN
    /\ kind \in Kinds
    /\ value \in Values(kind)
    /\ buffer = <<>>
    /\ shape = "exact"
    /\ pc = "new"
    /\ result = NoResult
    /\ version = <<0, 0>>
    /\ cs = ToU64(0)
    /\ offset = 0
    /\ inputs = <<>>
    /\ iter = 0

Locals == <<version, cs, offset, inputs, iter>>

Encode(k, bytes) ==
    /\ pc = "new"
    /\ kind = k
    /\ buffer' = bytes
    /\ pc' = "wire"
    /\ UNCHANGED <<overflow_checks, kind, value, shape, result, Locals>>

CompactSizeToBytes == Encode("CompactSize", CompactSize_to_bytes(value))
OutPointToBytes == Encode("OutPoint", OutPoint_to_bytes(value))
ScriptToBytes == Encode("Script", Script_to_bytes(value))
TransactionInputToBytes ==
    Encode("TransactionInput", TransactionInput_to_bytes(value))
BitcoinTransactionToBytes ==
    Encode("BitcoinTransaction", BitcoinTransaction_to_bytes(value))

Reshape(s, bytes) ==
    /\ buffer' = bytes
    /\ shape' = s
    /\ UNCHANGED <<overflow_checks, kind, value, pc, result, Locals>>

\* the caller passes only the first n bytes of the encoding
Truncate ==
    /\ pc = "wire" /\ shape = "exact"
    /\ \E n \in 0..(Len(buffer) - 1) : Reshape("truncated", Slice(buffer, 0, n))

\* the caller passes the encoding followed by other bytes
Extend ==
    /\ pc = "wire" /\ shape = "exact"
    /\ \E t \in Trailers : Reshape("extended", buffer \o t)

\* the caller passes a buffer that is no encoding of a value
Forge ==
    /\ pc = "wire" /\ shape = "exact"
    /\ \E at \in 0..(Len(buffer) - 1), p \in Forgeries :
          Reshape("forged", Overwrite(buffer, at, p))

Decode(k, r) ==
    /\ pc = "wire"
    /\ kind = k
    /\ result' = r
    /\ pc' = "done"
    /\ UNCHANGED <<overflow_checks, kind, value, buffer, shape, Locals>>

CompactSizeFromBytes == Decode("CompactSize", CompactSize_from_bytes(buffer))
OutPointFromBytes == Decode("OutPoint", OutPoint_from_bytes(buffer))
ScriptFromBytes == Decode("Script", Script_from_bytes(buffer))
TransactionInputFromBytes ==
    Decode("TransactionInput", TransactionInput_from_bytes(buffer))

\* BitcoinTransaction::from_bytes, lines 214-220
TxBegin ==
    /\ pc = "wire"
    /\ kind = "BitcoinTransaction"
    /\ LET h == TxHeader(buffer) IN
       IF h.tag # "Ok"
       THEN /\ result' = h
            /\ pc' = "done"
            /\ UNCHANGED Locals
       ELSE /\ version' = h.val.version
            /\ cs' = h.val.count
            /\ offset' = h.used
            /\ inputs' = <<>>
            /\ iter' = 0
            /\ pc' = "loop"
            /\ UNCHANGED result
    /\ UNCHANGED <<overflow_checks, kind, value, buffer, shape>>

\* one iteration of the loop, lines 221-225
TxIterate ==
    /\ pc = "loop"
    /\ TxLoopCond(iter, cs)
    /\ LET r == TxLoopBody(buffer, offset) IN
       IF r.tag # "Ok"
       THEN /\ result' = r
            /\ pc' = "done"
            /\ UNCHANGED <<offset, inputs, iter>>
       ELSE /\ inputs' = TxPush(inputs, r.val)
            /\ offset' = TxAdvance(offset, r.used)
            /\ iter' = iter + 1
            /\ UNCHANGED <<result, pc>>
    /\ UNCHANGED <<overflow_checks, kind, value, buffer, shape, version, cs>>

\* after the loop, lines 226-234
TxEnd ==
    /\ pc = "loop"
    /\ ~TxLoopCond(iter, cs)
    /\ result' = TxFinish(buffer, version, inputs, offset)
    /\ pc' = "done"
    /\ UNCHANGED <<overflow_checks, kind, value, buffer, shape, Locals>>

Next ==
    \/ CompactSizeToBytes
    \/ OutPointToBytes
    \/ ScriptToBytes
    \/ TransactionInputToBytes
    \/ BitcoinTransactionToBytes
    \/ Truncate
    \/ Extend
    \/ Forge
    \/ CompactSizeFromBytes
    \/ OutPointFromBytes
    \/ ScriptFromBytes
    \/ TransactionInputFromBytes
    \/ TxBegin
    \/ TxIterate
    \/ TxEnd

Spec == Init /\ [][Next]_vars

TypeOK ==
    /\ overflow_checks \in BOOLEAN
    /\ kind \in Kinds
    /\ pc \in {"new", "wire", "loop", "done"}
    /\ shape \in {"exact", "truncated", "extended", "forged"}
    /\ result.tag \in {"None", "Ok", "Err", "Panic"}
    /\ \A j \in 1..Len(buffer) : buffer[j] \in 0..255
    /\ (pc = "done") = (result.tag # "None")

\* the stepwise loop and the recursive reading of it agree on the result
LoopAgrees ==
    (pc = "done" /\ kind = "BitcoinTransaction")
        => result = BitcoinTransaction_from_bytes(buffer)

----------------------------------------------------------------------------
(* Vocabulary of the properties *)

\* from_bytes of the type named k
FromBytes(k, bytes) ==
    CASE k = "CompactSize" -> CompactSize_from_bytes(bytes)
      [] k = "OutPoint" -> OutPoint_from_bytes(bytes)
      [] k = "Script" -> Script_from_bytes(bytes)
      [] k = "TransactionInput" -> TransactionInput_from_bytes(bytes)
      [] k = "BitcoinTransaction" -> BitcoinTransaction_from_bytes(bytes)

\* b is the little-endian byte string of the unsigned integer v: the bytes
\* 2k-1 and 2k of b make up the k-th 16-bit limb of v, and v has no more
IsLittleEndianOf(b, v) ==
    /\ \A j \in 1..Len(b) : b[j] \in 0..255
    /\ \A k \in 1..Len(v) :
          v[k] = IF 2 * k <= Len(b) THEN b[2 * k - 1] + 256 * b[2 * k] ELSE 0

\* the u64 v is at most 2^16-1, at most 2^32-1
FitsU16(v) == v[2] = 0 /\ v[3] = 0 /\ v[4] = 0
FitsU32(v) == v[3] = 0 /\ v[4] = 0

\* the u64 d is larger than the buffer length n (n < 2^16)
Exceeds(d, n) == ~FitsU16(d) \/ d[1] > n

EmptyTx == BitcoinTransaction_new(<<1, 0>>, <<>>, <<0, 0>>)

\* the transaction decoder went past its header
InLoop == kind = "BitcoinTransaction" /\ offset > 0 /\ pc \in {"loop", "done"}

\* the transaction decoder stopped inside the loop, before cs.value inputs
StoppedMidLoop == InLoop /\ pc = "done" /\ ToU64(iter) # cs

----------------------------------------------------------------------------
(* C1 *)

\* C1: round trip. For every value x of every type, from_bytes(to_bytes(x))
\* succeeds and returns exactly (x, to_bytes(x).len()).
C1_RoundTrip ==
    (pc = "done" /\ shape = "exact") => result = Ok(value, Len(buffer))

C1_Witness ==
    /\ pc = "done" /\ shape = "exact" /\ kind = "BitcoinTransaction"
    /\ value.inputs = <<InputA, InputB>>
    /\ result.tag = "Ok" /\ result.val = value

----------------------------------------------------------------------------
(* C2 *)

\* C2: truncation safety. from_bytes of the first n bytes of to_bytes(x), for
\* every n below the full length, returns InsufficientBytes: no panic and no
\* successful decode; so do the prefixes of length 0..35 of an OutPoint.
C2_TruncationSafety ==
    (pc = "done" /\ shape = "truncated") => result = InsufficientBytes

C2_Witness ==
    /\ pc = "done" /\ shape = "truncated" /\ kind = "OutPoint"
    /\ value = OutPoint_new(Fill(TxidLen, 0), <<1, 0>>)
    /\ Len(buffer) = 35
    /\ result = InsufficientBytes

----------------------------------------------------------------------------
(* C3 *)

\* C3: Script::from_bytes on any buffer returns Ok or an error, never panics,
\* and returns InsufficientBytes whenever the length prefix declares more
\* payload bytes than remain after the prefix.
C3_ScriptTotal ==
    (pc = "done" /\ kind = "Script") =>
        /\ result.tag \in {"Ok", "Err"}
        /\ LET r == CompactSize_from_bytes(buffer) IN
           (r.tag = "Ok" /\ Exceeds(r.val.value, Len(buffer) - r.used))
               => result = InsufficientBytes

----------------------------------------------------------------------------
(* C4 *)

\* C4: CompactSize::to_bytes is canonical: one byte up to 252, 0xFD and 2
\* little-endian bytes up to 65535, 0xFE and 4 up to 4294967295, 0xFF and 8
\* above; 0 -> [0x00], 300 -> [0xFD,0x2C,0x01], 70000 ->
\* [0xFE,0x70,0x11,0x01,0x00]; the boundary values 0, 252, 253, 65535, 65536,
\* 4294967295, 4294967296 give lengths 1, 1, 3, 3, 5, 5, 9.
C4_CanonicalEncoding ==
    (kind = "CompactSize" /\ pc # "new" /\ shape = "exact") =>
        LET v == value.value
            b == buffer
        IN /\ (FitsU16(v) /\ v[1] <= 252) => b = <<v[1]>>
           /\ (FitsU16(v) /\ v[1] >= 253) =>
                 /\ Len(b) = 3 /\ b[1] = 253
                 /\ IsLittleEndianOf(Slice(b, 1, 3), v)
           /\ (FitsU32(v) /\ ~FitsU16(v)) =>
                 /\ Len(b) = 5 /\ b[1] = 254
                 /\ IsLittleEndianOf(Slice(b, 1, 5), v)
           /\ ~FitsU32(v) =>
                 /\ Len(b) = 9 /\ b[1] = 255
                 /\ IsLittleEndianOf(Slice(b, 1, 9), v)
           /\ (v = <<0, 0, 0, 0>>) => b = <<0>>
           /\ (v = <<300, 0, 0, 0>>) => b = <<253, 44, 1>>
           /\ (v = <<4464, 1, 0, 0>>) => b = <<254, 112, 17, 1, 0>>
           /\ (v = <<252, 0, 0, 0>>) => Len(b) = 1
           /\ (v = <<253, 0, 0, 0>>) => Len(b) = 3
           /\ (v = <<65535, 0, 0, 0>>) => Len(b) = 3
           /\ (v = <<0, 1, 0, 0>>) => Len(b) = 5
           /\ (v = <<65535, 65535, 0, 0>>) => Len(b) = 5
           /\ (v = <<0, 0, 1, 0>>) => Len(b) = 9

C4_Witness ==
    /\ kind = "CompactSize" /\ pc = "wire" /\ shape = "exact"
    /\ value.value = <<4464, 1, 0, 0>>
    /\ buffer = <<254, 112, 17, 1, 0>>

----------------------------------------------------------------------------
(* C5 *)

\* C5 as stated: the transaction with version 1, no inputs and lock_time 0
\* encodes to 01 00 00 00 | 00 | 00 00 00 00, that encoding is 13 bytes long,
\* and it decodes to a transaction with no inputs, version 1, lock_time 0.
C5_EmptyTxThirteen ==
    (value = EmptyTx /\ shape = "exact") =>
        /\ pc # "new" =>
              /\ buffer = <<1, 0, 0, 0, 0, 0, 0, 0, 0>>
              /\ Len(buffer) = 13
        /\ pc = "done" =>
              /\ result.tag = "Ok"
              /\ result.val = BitcoinTransaction_new(<<1, 0>>, <<>>, <<0, 0>>)

\* C5 amended: the same, the encoding being 9 bytes long (4 + 1 + 4) and
\* from_bytes consuming all 9.
C5_EmptyTxNine ==
    (value = EmptyTx /\ shape = "exact") =>
        /\ pc # "new" =>
              /\ buffer = <<1, 0, 0, 0, 0, 0, 0, 0, 0>>
              /\ Len(buffer) = 9
        /\ pc = "done" =>
              /\ result.tag = "Ok"
              /\ result.val = BitcoinTransaction_new(<<1, 0>>, <<>>, <<0, 0>>)
              /\ result.used = 9

C5_Witness ==
    /\ value = EmptyTx /\ shape = "exact" /\ pc = "done"
    /\ result.tag = "Ok" /\ result.val.inputs = <<>>

----------------------------------------------------------------------------
(* C6 *)

\* the total length a CompactSize with first byte b0 needs
Needed(b0) == IF b0 = 253 THEN 3 ELSE IF b0 = 254 THEN 5 ELSE IF b0 = 255 THEN 9 ELSE 1

\* C6: CompactSize::from_bytes on a non-empty buffer b: (b[0], 1) when
\* b[0] <= 0xFC; for b[0] = 0xFD / 0xFE / 0xFF the little-endian value of the
\* next 2 / 4 / 8 bytes and 3 / 5 / 9 when b has that many bytes, and
\* InsufficientBytes when it has not. Non-minimal encodings are accepted:
\* [0xFD,0x05,0x00] decodes to (5, 3).
C6_DecodingRule ==
    (pc # "new" /\ buffer # <<>>) =>
        LET b == buffer
            r == CompactSize_from_bytes(b)
            need == Needed(b[1])
        IN /\ (kind = "CompactSize" /\ pc = "done") => result = r
           /\ b[1] <= 252 => r = Ok([value |-> <<b[1], 0, 0, 0>>], 1)
           /\ (b[1] >= 253 /\ Len(b) >= need) =>
                 /\ r.tag = "Ok"
                 /\ r.used = need
                 /\ Len(r.val.value) = 4
                 /\ IsLittleEndianOf(Slice(b, 1, need), r.val.value)
           /\ (b[1] >= 253 /\ Len(b) < need) => r = InsufficientBytes
           /\ b = <<253, 5, 0>> => r = Ok([value |-> <<5, 0, 0, 0>>], 3)

C6_Witness ==
    /\ kind = "CompactSize" /\ pc = "done" /\ shape = "forged"
    /\ buffer = <<253, 5, 0>>
    /\ result = Ok([value |-> <<5, 0, 0, 0>>], 3)

----------------------------------------------------------------------------
(* C7 *)

\* the offset at which input number k+1 starts, counted from the consumed
\* lengths of the k inputs before it
RECURSIVE EndOf(_, _, _)
EndOf(bytes, start, k) ==
    IF k = 0 THEN start
    ELSE LET p == EndOf(bytes, start, k - 1) IN
         p + TransactionInput_from_bytes(Slice(bytes, p, Len(bytes))).used

\* C7: input-count fidelity. When BitcoinTransaction::from_bytes succeeds, the
\* number of inputs is the CompactSize at offset 4, input i is the
\* TransactionInput decoded where input i-1 ended, lock_time is the 4
\* little-endian bytes after the last input (right after the count byte when
\* the count byte is 0), and decoding an encoded transaction gives back its
\* inputs in their order.
C7_InputCountFidelity ==
    (pc = "done" /\ kind = "BitcoinTransaction" /\ result.tag = "Ok") =>
        LET b == buffer
            c == CompactSize_from_bytes(Slice(b, 4, Len(b)))
            tx == result.val
            n == Len(tx.inputs)
            last == EndOf(b, 4 + c.used, n)
        IN /\ c.tag = "Ok"
           /\ c.val.value = <<n, 0, 0, 0>>
           /\ \A i \in 1..n :
                 LET at == EndOf(b, 4 + c.used, i - 1)
                     r == TransactionInput_from_bytes(Slice(b, at, Len(b)))
                 IN r.tag = "Ok" /\ tx.inputs[i] = r.val
           /\ last + 4 <= Len(b)
           /\ Len(tx.lock_time) = 2
           /\ IsLittleEndianOf(Slice(b, last, last + 4), tx.lock_time)
           /\ result.used = last + 4
           /\ b[5] = 0 => /\ n = 0
                          /\ IsLittleEndianOf(Slice(b, 5, 9), tx.lock_time)
           /\ shape = "exact" => tx.inputs = value.inputs

C7_Witness ==
    /\ pc = "done" /\ kind = "BitcoinTransaction" /\ result.tag = "Ok"
    /\ shape = "exact"
    /\ result.val.inputs = <<InputB, InputA>>
    /\ result.val.lock_time = <<513, 1027>>

----------------------------------------------------------------------------
(* C8 *)

\* C8: every error a decoder returns is InsufficientBytes, never
\* InvalidFormat, and carries no value; the error of a sub-decoder is the
\* error of the composing decoder: when an input fails inside the loop of
\* BitcoinTransaction::from_bytes the transaction decode returns that error.
C8_ErrorKind ==
    pc = "done" =>
        /\ result.tag = "Err" => result = InsufficientBytes
        /\ \A k \in Kinds :
              LET r == FromBytes(k, buffer) IN
              r.tag = "Err" => r = InsufficientBytes
        /\ StoppedMidLoop =>
              LET r == TransactionInput_from_bytes(
                           Slice(buffer, offset, Len(buffer)))
              IN r.tag # "Ok" /\ result = r
        /\ kind = "TransactionInput" =>
              LET r1 == OutPoint_from_bytes(buffer) IN
              /\ r1.tag = "Err" => result = r1
              /\ r1.tag = "Ok" =>
                    LET r2 == Script_from_bytes(
                                  Slice(buffer, r1.used, Len(buffer)))
                    IN r2.tag = "Err" => result = r2

C8_Witness ==
    /\ StoppedMidLoop
    /\ iter = 1
    /\ cs = <<2, 0, 0, 0>>
    /\ result = InsufficientBytes

----------------------------------------------------------------------------
(* C9 *)

\* the iterations the loop has started: the completed ones and the one that
\* failed
Started == iter + (IF StoppedMidLoop THEN 1 ELSE 0)

\* the part of C9 about the loop's variables
LoopOffsetInv ==
    InLoop =>
        /\ 5 <= offset /\ offset <= Len(buffer)
        /\ 5 + 41 * iter <= offset
        /\ iter = Len(inputs)
        /\ LeqU(ToU64(Len(inputs)), cs)
        /\ Started <= ((Len(buffer) - 5) \div 41) + 1

\* C9: in every state of the input loop 5 <= offset <= len(buffer), every
\* iteration adds at least 41 to offset, no more than cs.value inputs are
\* pushed, and the loop ends, with success or InsufficientBytes, after at
\* most floor((len(buffer)-5)/41)+1 iterations.
C9_LoopBounded ==
    /\ LoopOffsetInv
    /\ (InLoop /\ pc = "done") =>
          (result.tag = "Ok" \/ result = InsufficientBytes)

----------------------------------------------------------------------------
(* C10 *)

\* C10: prefix property. If from_bytes(b) = Ok((v, n)) then n <= len(b),
\* from_bytes of the first n bytes of b is the same (v, n), and so is
\* from_bytes(b ++ t) for every t; n is 36 for an OutPoint and
\* 36 + (Script consumed) + 4 for a TransactionInput.
C10_PrefixProperty ==
    pc = "done" =>
        /\ result = FromBytes(kind, buffer)
        /\ \A k \in Kinds :
              LET r == FromBytes(k, buffer) IN
              r.tag = "Ok" =>
                 /\ r.used <= Len(buffer)
                 /\ FromBytes(k, Slice(buffer, 0, r.used)) = r
                 /\ \A t \in Trailers : FromBytes(k, buffer \o t) = r
                 /\ k = "OutPoint" => r.used = 36
                 /\ k = "TransactionInput" =>
                       r.used = 36 + Script_from_bytes(
                                        Slice(buffer, 36, Len(buffer))).used + 4

C10_Witness ==
    /\ pc = "done" /\ kind = "TransactionInput" /\ shape = "extended"
    /\ value = InputB
    /\ result = Ok(InputB, 49)
    /\ Len(buffer) = 49 + MaxTrail

====
